---------------------------- MODULE Spec2Model ----------------------------
(***************************************************************************)
(* A model of painter.py: the pixel source and its set_size, the canvas    *)
(* boundary resolution (overflow / push / center), the paint loop in       *)
(* sequential and in thread-pool mode, and the address built by            *)
(* Canvas.paint_pixel.                                                     *)
(***************************************************************************)
EXTENDS Integers, Sequences, FiniteSets, TLC

(***************************************************************************)
(* Program constants (painter.py lines 56-75).                             *)
(***************************************************************************)
MAX_WORKERS == 3
MAGIC_NUMBER == 8
UNDEFINED == -1
ORIGIN == 0
MAX == 65536
MIN_SIZE == 1
MAX_COLOR == 255

(***************************************************************************)
(* Bounds of the model.                                                    *)
(***************************************************************************)
\* native size of the image file opened by Bitmap in a program run
ImgW == 4
ImgH == 3
\* the --width / --height values a program run is started with
ReqW == 3
ReqH == 2
\* set_size alone: current sizes 1..MaxCur, requested sizes 1..MaxReq
MaxCur == 5
MaxReq == 6

(***************************************************************************)
(* Arithmetic helpers.                                                     *)
(***************************************************************************)
RECURSIVE IsPowerOfTwo(_)
IsPowerOfTwo(n) == IF n = 1 THEN TRUE
                   ELSE IF n % 2 = 1 THEN FALSE
                   ELSE IsPowerOfTwo(n \div 2)

RECURSIVE Gcd(_, _)
Gcd(a, b) == IF b = 0 THEN a ELSE Gcd(b, a % b)

\* Python's round(q) of a float q whose real value is num/den (num >= 0,
\* den > 0): the set of results the build can produce.  Off a tie the
\* float error is far smaller than the distance to the tie, so the result
\* is the nearest integer.  On a tie (2*num = (2k+1)*den), round() goes to
\* the even neighbour when the float q holds the tie exactly (`exact');
\* when an operand was already rounded, q may sit a few ulps to either
\* side of k + 0.5 and either neighbour comes out.
NearestInts(num, den, exact) ==
    LET q == num \div den
        r == num % den
    IN  IF 2 * r < den THEN {q}
        ELSE IF 2 * r > den THEN {q + 1}
        ELSE IF exact THEN {IF q % 2 = 0 THEN q ELSE q + 1}
        ELSE {q, q + 1}

\* MAX_SIZE = round(MAX / MAGIC_NUMBER): a power-of-two divisor, so the
\* float quotient is exact.
MAX_SIZE == CHOOSE v \in NearestInts(MAX, MAGIC_NUMBER, TRUE) : TRUE

\* math.trunc(n / 2) for an integer n >= 0.
TruncHalf(n) == n \div 2


(***************************************************************************)
(* The pixel source: Element, Bitmap, Filling.  A source is a record       *)
(* [fill, color, width, height]; an operation that can call sys.exit       *)
(* yields records with an `exit' field.                                    *)
(***************************************************************************)
\* Element.__init__: width = height = 0.
Element(fill, color) ==
    [fill |-> fill, color |-> color, width |-> 0, height |-> 0]

\* A set_size that takes the aspect ratio after assigning the requested
\* axis (the ratio of the new width to the old height, and conversely).
ElementSetSizeLate(self, width, height) ==
    LET has_zeros == self.width = 0 \/ self.height = 0
        bad(v) == v # UNDEFINED /\ (v < MIN_SIZE \/ v > MAX_SIZE)
    IN  IF bad(width) \/ bad(height)
        THEN {self @@ [exit |-> TRUE]}
        ELSE IF width # UNDEFINED /\ height # UNDEFINED
        THEN {[self EXCEPT !.width = width, !.height = height]
                 @@ [exit |-> FALSE]}
        ELSE IF width # UNDEFINED /\ self.width # width /\ ~has_zeros
        THEN {[self EXCEPT !.width = width, !.height = h] @@ [exit |-> FALSE] :
                 h \in NearestInts(width * self.height, width, FALSE)}
        ELSE IF height # UNDEFINED /\ self.height # height /\ ~has_zeros
        THEN {[self EXCEPT !.height = height, !.width = w] @@ [exit |-> FALSE] :
                 w \in NearestInts(height * self.width, height, FALSE)}
        ELSE {self @@ [exit |-> FALSE]}

\* A set_size that checks no upper limit.
ElementSetSizeNoMax(self, width, height) ==
    LET has_zeros == self.width = 0 \/ self.height = 0
        bad(v) == v # UNDEFINED /\ v < MIN_SIZE
    IN  IF bad(width) \/ bad(height)
        THEN {self @@ [exit |-> TRUE]}
        ELSE IF width # UNDEFINED /\ height # UNDEFINED
        THEN {[self EXCEPT !.width = width, !.height = height]
                 @@ [exit |-> FALSE]}
        ELSE IF width # UNDEFINED /\ self.width # width /\ ~has_zeros
        THEN {[self EXCEPT !.width = width, !.height = h] @@ [exit |-> FALSE] :
                 h \in NearestInts(width * self.height, self.width, FALSE)}
        ELSE IF height # UNDEFINED /\ self.height # height /\ ~has_zeros
        THEN {[self EXCEPT !.height = height, !.width = w] @@ [exit |-> FALSE] :
                 w \in NearestInts(height * self.width, self.height, FALSE)}
        ELSE {self @@ [exit |-> FALSE]}

\* Element.set_size(width, height).  The range checks of both arguments
\* come first and exit the program; then both given: taken as they are;
\* one given, differing from the current value, and no zero dimension: the
\* other axis is round(given / aspect_ratio), with aspect_ratio the float
\* self.width / self.height (or its reciprocal) of the sizes before the
\* call; anything else leaves the size alone.
ElementSetSize(self, width, height) ==
    LET has_zeros == self.width = 0 \/ self.height = 0
        bad(v) == v # UNDEFINED /\ (v < MIN_SIZE \/ v > MAX_SIZE)
        use_width == width # UNDEFINED
        use_height == height # UNDEFINED
    IN  IF bad(width) \/ bad(height)
        THEN {self @@ [exit |-> TRUE]}
        ELSE IF use_width /\ use_height
        THEN {[self EXCEPT !.width = width, !.height = height]
                 @@ [exit |-> FALSE]}
        ELSE IF use_width /\ self.width # width /\ ~has_zeros
        THEN {[self EXCEPT !.width = width, !.height = h] @@ [exit |-> FALSE] :
                 h \in NearestInts(width * self.height, self.width,
                          IsPowerOfTwo(self.height
                                       \div Gcd(self.width, self.height)))}
        ELSE IF use_height /\ self.height # height /\ ~has_zeros
        THEN {[self EXCEPT !.height = height, !.width = w] @@ [exit |-> FALSE] :
                 w \in NearestInts(height * self.width, self.height,
                          IsPowerOfTwo(self.width
                                       \div Gcd(self.width, self.height)))}
        ELSE {self @@ [exit |-> FALSE]}

\* Bitmap.assert_size: TRUE when it exits the program.
AssertSizeExits(self) ==
    \/ self.width < MIN_SIZE \/ self.height < MIN_SIZE
    \/ self.width > MAX_SIZE \/ self.height > MAX_SIZE

\* Bitmap.__init__ on an image file of w x h pixels.
Bitmap(w, h) ==
    LET self == [Element(FALSE, <<>>) EXCEPT !.width = w, !.height = h]
    IN  self @@ [exit |-> AssertSizeExits(self)]

\* Bitmap.set_size: the parent's set_size, then assert_size, then the
\* resize of the image to the new size.
BitmapSetSize(self, width, height) ==
    {IF r.exit THEN r ELSE [r EXCEPT !.exit = AssertSizeExits(r)] :
        r \in ElementSetSize(self, width, height)}

\* Filling.__init__: set_color (alpha defaults to MAX_COLOR), then set_size.
Filling(color, width, height) ==
    ElementSetSize(Element(TRUE, color), width, height)

\* Element.valid_pixel.
valid_pixel(self, x, y) ==
    x >= 0 /\ x < self.width /\ y >= 0 /\ y < self.height

\* What the resized image holds at (x, y): PIL's getpixel on an RGBA image.
\* The image content is the decoder's; a fixed pattern with transparent
\* and opaque pixels stands for it.
ImagePixel(x, y) ==
    <<(x + 1) % (MAX_COLOR + 1), (y + 1) % (MAX_COLOR + 1),
      (x * y) % (MAX_COLOR + 1),
      IF (x + y) % 2 = 0 THEN 0 ELSE MAX_COLOR>>

\* Bitmap.get_pixel / Filling.get_pixel, for a valid pixel.
get_pixel(self, x, y) ==
    IF self.fill THEN self.color ELSE ImagePixel(x, y)

(***************************************************************************)
(* Canvas boundaries.                                                      *)
(***************************************************************************)
exceeds_values(x, y, width, height) ==
    <<x < ORIGIN, y < ORIGIN, x + width > MAX, y + height > MAX>>

exceeds(x, y, width, height) ==
    LET v == exceeds_values(x, y, width, height)
    IN  v[1] \/ v[2] \/ v[3] \/ v[4]

(***************************************************************************)
(* Strings are sequences of one-character strings.                         *)
(***************************************************************************)
LowerHex == <<"0", "1", "2", "3", "4", "5", "6", "7",
              "8", "9", "a", "b", "c", "d", "e", "f">>
HexChars == {LowerHex[i] : i \in 1..16} \cup {"A", "B", "C", "D", "E", "F"}

BASE_ADDR == <<"2", "6", "0", "2", ":", "f", "7", "5", "c", ":",
               "c", "0", ":", ":">>
DUMMY_ADDR == <<"f", "f", "f", "f", ":", "f", "f", "f", "f", ":",
                "f", "f", "f", "f", ":", "f", "f", "f", "f">>

\* The groups of s between its colons ("a::b" has the groups a, <<>>, b).
RECURSIVE Groups(_)
Groups(s) ==
    IF \A i \in 1..Len(s) : s[i] # ":" THEN <<s>>
    ELSE LET k == CHOOSE i \in 1..Len(s) :
                      s[i] = ":" /\ \A j \in 1..(i - 1) : s[j] # ":"
         IN  <<SubSeq(s, 1, k - 1)>> \o Groups(SubSeq(s, k + 1, Len(s)))

\* re.match(IPV6_ADDR_REGEX, s) for an s of hextets and colons (no dotted
\* quad, no zone index): eight hextets of 1 to 4 hex digits, or at most
\* seven with a single "::" standing for the missing ones.
MatchesIPv6(s) ==
    LET g == Groups(s)
        n == Len(g)
        hextet(h) == Len(h) \in 1..4 /\ \A i \in 1..Len(h) : h[i] \in HexChars
        empty == {i \in 1..n : g[i] = <<>>}
        full == Cardinality({i \in 1..n : g[i] # <<>>})
    IN  /\ \A i \in 1..n : g[i] = <<>> \/ hextet(g[i])
        /\ \/ empty = {} /\ n = 8
           \/ \E i \in 2..(n - 1) : empty = {i} /\ full <= 7
           \/ n >= 3 /\ empty = {1, 2} /\ full <= 7
           \/ n >= 3 /\ empty = {n - 1, n} /\ full <= 7
           \/ n = 3 /\ empty = {1, 2, 3}

\* Canvas.__init__: TRUE when it exits the program.
CanvasExits(base_addr) == ~MatchesIPv6(base_addr \o DUMMY_ADDR)

\* The digits of n >= 0 in base 16, most significant first.
RECURSIVE HexDigits(_)
HexDigits(n) ==
    IF n < 16 THEN <<LowerHex[n + 1]>>
    ELSE Append(HexDigits(n \div 16), LowerHex[(n % 16) + 1])

RECURSIVE ZeroPad(_, _)
ZeroPad(s, w) == IF Len(s) >= w THEN s ELSE ZeroPad(<<"0">> \o s, w)

\* A format without the zero padding: f'{n:x}'.
FormatHexBare(n, w) ==
    IF n < 0 THEN <<"-">> \o HexDigits(-n) ELSE HexDigits(n)

\* f'{n:0wx}': lowercase hex, zero-padded to at least w characters, the
\* sign of a negative n counted in the width.
FormatHex(n, w) ==
    IF n < 0 THEN <<"-">> \o ZeroPad(HexDigits(-n), w - 1)
    ELSE ZeroPad(HexDigits(n), w)

\* The address Canvas.paint_pixel builds.
PaintPixelAddress(base_addr, x, y, r, g, b, a) ==
    base_addr \o FormatHex(x, 4) \o <<":">> \o FormatHex(y, 4) \o <<":">>
        \o FormatHex(r, 2) \o FormatHex(g, 2) \o <<":">>
        \o FormatHex(b, 2) \o FormatHex(a, 2)

\* int(s, 16) of a string of hex digits.
RECURSIVE ParseHex(_)
ParseHex(s) ==
    IF s = <<>> THEN 0
    ELSE LET d == s[Len(s)]
             v == IF \E i \in 1..16 : LowerHex[i] = d
                  THEN (CHOOSE i \in 1..16 : LowerHex[i] = d) - 1
                  ELSE -1
         IN  IF v < 0 \/ ParseHex(SubSeq(s, 1, Len(s) - 1)) < 0 THEN -1
             ELSE 16 * ParseHex(SubSeq(s, 1, Len(s) - 1)) + v

(***************************************************************************)
(* The state of a program run.                                             *)
(***************************************************************************)
VARIABLES
    args,            \* the arguments as parsed from the command line
    origin,          \* [x, y]: args.x and args.y, which the run rewrites
    pc,              \* where the run is
    error,           \* the error the run exited with, "none" so far
    source,          \* the Element: [fill, color, width, height]
    area,            \* width, height, start_x, start_y, stop_width,
                     \* stop_height, exceeds_var (lines 535-551)
    pos,             \* [y, x]: positions of the two loops in iter_y, iter_x
    painted,         \* the counter of line 609
    ops,             \* the calls of Canvas.paint_pixel, in the order made
    status,          \* the values os.system returned, by the number of
                     \* the call in ops; kept only where a run tracks them
    address,         \* the address the last paint_pixel call built
    tasks,           \* the executor's work items, in submission order
    canvas_futures,  \* the list of line 605: indices into tasks
    joins            \* the sizes of the batches waited for, in order

vars == <<args, origin, pc, error, source, area, pos, painted, ops, status,
          address, tasks, canvas_futures, joins>>

\* The base address of a run that fails Canvas.__init__: seven hextets.
BadBase == <<"2", "6", "0", "2", ":", "f", "7", "5", "c", ":",
             "c", "0", ":">>

White == <<MAX_COLOR, MAX_COLOR, MAX_COLOR, MAX_COLOR>>
Clear == <<18, 52, 86, 0>>

NoArea == [width |-> 0, height |-> 0, start_x |-> 0, start_y |-> 0,
           stop_width |-> 0, stop_height |-> 0, exceeds_var |-> FALSE]
NoSource == Element(FALSE, <<>>)

\* The argument values runs are started with.
XVals == {UNDEFINED, MAX - 2, MAX}
CXVals == {UNDEFINED, 0, MAX - 1}
YVals == {UNDEFINED, MAX - 1}
CYVals == {UNDEFINED, 0, -2}
WVals == {UNDEFINED, 0, ReqW, MAX_SIZE + 1}
HVals == {UNDEFINED, ReqH}
Sources == {[fill |-> TRUE, color |-> White], [fill |-> TRUE, color |-> Clear],
            [fill |-> FALSE, color |-> <<>>]}

ArgsOf(x, y, cx, cy, w, h, src, rev, skip, mt, ov, pu, base) ==
    [x |-> x, y |-> y, cx |-> cx, cy |-> cy, width |-> w, height |-> h,
     fill |-> src.fill, color |-> src.color, reverse |-> rev,
     skip_transparent |-> skip, multithreading |-> mt, overflow |-> ov,
     push |-> pu, base_addr |-> base]

GeneralArgs ==
    {ArgsOf(x, y, cx, cy, w, h, src, rev, skip, mt, ov, pu, base) :
        x \in XVals, y \in YVals, cx \in CXVals, cy \in CYVals,
        w \in WVals, h \in HVals, src \in Sources,
        rev \in BOOLEAN, skip \in BOOLEAN, mt \in BOOLEAN,
        ov \in BOOLEAN, pu \in BOOLEAN, base \in {BASE_ADDR, BadBase}}

\* The runs of the worked examples: a 10x10 filling at (0, 65530) under
\* each policy, an 11x11 filling centered at (100, 100), a row of 7 pixels
\* painted through the thread pool, a filling of the largest width at the
\* last column, and a negative height.
ExampleArgs ==
    {ArgsOf(0, MAX - 6, UNDEFINED, UNDEFINED, 10, 10, [fill |-> TRUE,
            color |-> White], FALSE, FALSE, FALSE, ov, pu, BASE_ADDR) :
        ov \in BOOLEAN, pu \in BOOLEAN}
    \cup {ArgsOf(UNDEFINED, UNDEFINED, 100, 100, 11, 11, [fill |-> TRUE,
                 color |-> White], rev, FALSE, FALSE, FALSE, FALSE,
                 BASE_ADDR) : rev \in BOOLEAN}
    \cup {ArgsOf(UNDEFINED, UNDEFINED, UNDEFINED, UNDEFINED, 7, 1,
                 [fill |-> TRUE, color |-> White], rev, FALSE, TRUE, FALSE,
                 FALSE, BASE_ADDR) : rev \in BOOLEAN}
    \cup {ArgsOf(MAX - 1, UNDEFINED, UNDEFINED, UNDEFINED, MAX_SIZE, 1,
                 [fill |-> TRUE, color |-> White], FALSE, FALSE, mt, ov,
                 FALSE, BASE_ADDR) : mt \in BOOLEAN, ov \in BOOLEAN}
    \cup {ArgsOf(UNDEFINED, UNDEFINED, UNDEFINED, UNDEFINED, ReqW, -2, src,
                 FALSE, FALSE, FALSE, FALSE, FALSE, BASE_ADDR) :
             src \in Sources}

Init ==
    /\ args \in GeneralArgs \cup ExampleArgs
    /\ origin = [x |-> args.x, y |-> args.y]
    /\ pc = "verify"
    /\ error = "none"
    /\ source = NoSource
    /\ area = NoArea
    /\ pos = [y |-> 0, x |-> 0]
    /\ painted = 0
    /\ ops = <<>>
    /\ status = <<>>
    /\ address = <<>>
    /\ tasks = <<>>
    /\ canvas_futures = <<>>
    /\ joins = <<>>

\* sys.exit(1) after an error message.
Exit(kind) == pc' = "fatal" /\ error' = kind

(***************************************************************************)
(* Lines 396-500: the checks of the arguments.  The first failing check    *)
(* exits; an undefined -x or -y becomes ORIGIN.                            *)
(***************************************************************************)
VerifyError(a) ==
    IF a.x # UNDEFINED /\ a.cx # UNDEFINED THEN "x_with_cx"
    ELSE IF a.x # UNDEFINED /\ (a.x < ORIGIN \/ a.x >= MAX) THEN "x_range"
    ELSE IF a.y # UNDEFINED /\ a.cy # UNDEFINED THEN "y_with_cy"
    ELSE IF a.y # UNDEFINED /\ (a.y < ORIGIN \/ a.y >= MAX) THEN "y_range"
    ELSE IF a.cx # UNDEFINED /\ (a.cx < ORIGIN \/ a.cx >= MAX) THEN "cx_range"
    ELSE IF a.cy # UNDEFINED /\ (a.cy < ORIGIN \/ a.cy >= MAX) THEN "cy_range"
    ELSE IF a.fill /\ (a.width = UNDEFINED \/ a.height = UNDEFINED)
    THEN "fill_without_size"
    ELSE IF a.overflow /\ a.push THEN "overflow_and_push"
    ELSE "none"

VerifyArgs ==
    /\ pc = "verify"
    /\ IF VerifyError(args) # "none"
       THEN /\ Exit(VerifyError(args))
            /\ UNCHANGED origin
       ELSE /\ pc' = "source"
            /\ origin' = [x |-> IF args.x = UNDEFINED THEN ORIGIN ELSE args.x,
                          y |-> IF args.y = UNDEFINED THEN ORIGIN ELSE args.y]
            /\ UNCHANGED error
    /\ UNCHANGED <<args, source, area, pos, painted, ops, status, address,
                   tasks, canvas_futures, joins>>

(***************************************************************************)
(* Lines 525-535: the source is created and sized, and its size saved.     *)
(***************************************************************************)
SizedSources(a) ==
    IF a.fill THEN Filling(a.color, a.width, a.height)
    ELSE IF Bitmap(ImgW, ImgH).exit THEN {Bitmap(ImgW, ImgH)}
    ELSE BitmapSetSize([fill |-> FALSE, color |-> <<>>, width |-> ImgW,
                        height |-> ImgH], a.width, a.height)

CreateSource ==
    /\ pc = "source"
    /\ \E s \in SizedSources(args) :
          /\ source' = [fill |-> s.fill, color |-> s.color,
                        width |-> s.width, height |-> s.height]
          /\ IF s.exit
             THEN Exit("size") /\ UNCHANGED area
             ELSE /\ pc' = "center"
                  /\ area' = [area EXCEPT !.width = s.width,
                                          !.height = s.height]
                  /\ UNCHANGED error
    /\ UNCHANGED <<args, origin, pos, painted, ops, status, address, tasks,
                   canvas_futures, joins>>

(***************************************************************************)
(* Lines 537-542: a center coordinate becomes the origin of its axis.      *)
(***************************************************************************)
\* A center translation by round(size / 2) instead of math.trunc(size / 2).
CenterOriginRound(c, size) == c - CHOOSE v \in NearestInts(size, 2, TRUE) : TRUE

CenterOrigin(c, size) == c - TruncHalf(size)

CheckCenter ==
    /\ pc = "center"
    /\ origin' = [x |-> IF args.cx # UNDEFINED
                         THEN CenterOrigin(args.cx, area.width) ELSE origin.x,
                  y |-> IF args.cy # UNDEFINED
                         THEN CenterOrigin(args.cy, area.height) ELSE origin.y]
    /\ pc' = "bounds"
    /\ UNCHANGED <<args, error, source, area, pos, painted, ops, status,
                   address, tasks, canvas_futures, joins>>

(***************************************************************************)
(* Lines 544-579: the canvas boundaries.                                   *)
(***************************************************************************)
\* An overflow that also moves the stop bounds by the start offset.
OverflowWindowShifted(x, y, w, ex) ==
    [w EXCEPT
       !.start_x = IF ex[1] THEN @ - x ELSE @,
       !.start_y = IF ex[2] THEN @ - y ELSE @,
       !.stop_width = IF ex[3] THEN MAX - x ELSE IF ex[1] THEN @ - x ELSE @,
       !.stop_height = IF ex[4] THEN MAX - y ELSE IF ex[2] THEN @ - y ELSE @]

\* An overflow that leaves the stop bounds at the size of the source.
OverflowWindowUncapped(x, y, w, ex) ==
    [w EXCEPT
       !.start_x = IF ex[1] THEN @ - x ELSE @,
       !.start_y = IF ex[2] THEN @ - y ELSE @]

\* Lines 557-565: the overflow policy narrows the window w for the
\* exceeded edges ex = <<left, top, right, bottom>>.
OverflowWindow(x, y, w, ex) ==
    [w EXCEPT
       !.start_x = IF ex[1] THEN @ - x ELSE @,
       !.start_y = IF ex[2] THEN @ - y ELSE @,
       !.stop_width = IF ex[3] THEN MAX - x ELSE @,
       !.stop_height = IF ex[4] THEN MAX - y ELSE @]

\* A push that moves the origin to the last canvas coordinate.
PushOriginLast(x, y, w, ex) ==
    [x |-> IF ex[3] THEN MAX - 1 ELSE IF ex[1] THEN ORIGIN ELSE x,
     y |-> IF ex[4] THEN MAX - 1 ELSE IF ex[2] THEN ORIGIN ELSE y]

\* Lines 566-574: the push policy moves the origin for the exceeded edges
\* (the right/bottom assignment is the later one).
PushOrigin(x, y, w, ex) ==
    [x |-> IF ex[3] THEN MAX - w.stop_width
           ELSE IF ex[1] THEN ORIGIN ELSE x,
     y |-> IF ex[4] THEN MAX - w.stop_height
           ELSE IF ex[2] THEN ORIGIN ELSE y]

VerifyBoundaries ==
    /\ pc = "bounds"
    /\ LET ex == exceeds_values(origin.x, origin.y, area.width, area.height)
           exceeds_var == ex[1] \/ ex[2] \/ ex[3] \/ ex[4]
           w0 == [area EXCEPT !.start_x = ORIGIN, !.start_y = ORIGIN,
                              !.stop_width = area.width,
                              !.stop_height = area.height,
                              !.exceeds_var = exceeds_var]
           w1 == IF exceeds_var /\ args.overflow
                 THEN OverflowWindow(origin.x, origin.y, w0, ex) ELSE w0
           o  == IF exceeds_var /\ args.push
                 THEN PushOrigin(origin.x, origin.y, w1, ex)
                 ELSE [x |-> origin.x, y |-> origin.y]
       IN  IF exceeds_var /\ ~args.overflow /\ ~args.push
           THEN /\ Exit("boundary")
                /\ area' = w0
                /\ UNCHANGED origin
           ELSE /\ area' = w1
                /\ origin' = o
                /\ IF exceeds_var /\ args.push
                      /\ exceeds(o.x, o.y, w1.stop_width, w1.stop_height)
                   THEN Exit("push_failed")
                   ELSE pc' = "canvas" /\ UNCHANGED error
    /\ UNCHANGED <<args, source, pos, painted, ops, status, address, tasks,
                   canvas_futures, joins>>

(***************************************************************************)
(* Lines 596-613: the canvas is created, then the ranges, the futures      *)
(* list and the counter are set up.                                        *)
(***************************************************************************)
\* A canvas that takes any base address.
CreateCanvasUnchecked ==
    /\ pc = "canvas"
    /\ pc' = "paint"
    /\ pos' = [y |-> 1, x |-> 1]
    /\ painted' = 0
    /\ canvas_futures' = <<>>
    /\ UNCHANGED <<args, origin, error, source, area, ops, status, address,
                   tasks, joins>>

CreateCanvas ==
    /\ pc = "canvas"
    /\ IF CanvasExits(args.base_addr)
       THEN Exit("base_addr") /\ UNCHANGED <<pos, painted, canvas_futures>>
       ELSE /\ pc' = "paint"
            /\ pos' = [y |-> 1, x |-> 1]
            /\ painted' = 0
            /\ canvas_futures' = <<>>
            /\ UNCHANGED error
    /\ UNCHANGED <<args, origin, source, area, ops, status, address, tasks,
                   joins>>

(***************************************************************************)
(* Lines 599-638: the paint loop.                                          *)
(***************************************************************************)
\* range(start, stop) as a sequence.
RangeSeq(start, stop) ==
    [i \in 1..(IF stop > start THEN stop - start ELSE 0) |-> start + i - 1]

\* A reversed iteration that stops one short of the start.
IterSeqShort(start, stop, reverse) ==
    LET r == RangeSeq(start, stop)
    IN  IF reverse THEN [i \in 1..(Len(r) - 1) |-> r[Len(r) + 1 - i]] ELSE r

\* reversed(range) or iter(range).
IterSeq(start, stop, reverse) ==
    LET r == RangeSeq(start, stop)
    IN  IF reverse THEN [i \in 1..Len(r) |-> r[Len(r) + 1 - i]] ELSE r

\* An inner loop that runs forward whatever --reverse says.
iter_xForward == IterSeq(area.start_x, area.stop_width, FALSE)

iter_x == IterSeq(area.start_x, area.stop_width, args.reverse)
iter_y == IterSeq(area.start_y, area.stop_height, args.reverse)

\* Both loops are exhausted.
LoopDone == pos.y > Len(iter_y) \/ Len(iter_x) = 0

\* The position after the current one: the next x, or the next row.
NextPos == IF pos.x < Len(iter_x) THEN [pos EXCEPT !.x = @ + 1]
           ELSE [y |-> pos.y + 1, x |-> 1]

PaintOp(x, y, px) ==
    [x |-> x, y |-> y, r |-> px[1], g |-> px[2], b |-> px[3], a |-> px[4]]

AddressOf(op) ==
    PaintPixelAddress(args.base_addr, op.x, op.y, op.r, op.g, op.b, op.a)

AllDone(futures) == \A k \in 1..Len(futures) : tasks[futures[k]].state = "done"

\* One iteration of the inner loop (lines 623-638): the pixel is fetched
\* (get_pixel raises ValueError outside the source), skipped when
\* transparent, submitted to the executor or painted at once.  After every
\* MAX_WORKERS-th submission the iteration blocks in
\* concurrent.futures.wait (pc = "wait") before it goes on.
PaintIteration ==
    /\ pc = "paint"
    /\ ~LoopDone
    /\ LET x == iter_x[pos.x]
           y == iter_y[pos.y]
           canvas_x == origin.x + x
           canvas_y == origin.y + y
           px == get_pixel(source, x, y)
           op == PaintOp(canvas_x, canvas_y, px)
       IN  IF ~valid_pixel(source, x, y)
           THEN /\ pc' = "crash"
                /\ error' = "ValueError"
                /\ UNCHANGED <<pos, painted, ops, address, tasks,
                               canvas_futures>>
           ELSE IF args.skip_transparent /\ px[4] = 0
           THEN /\ pos' = NextPos
                /\ UNCHANGED <<pc, error, painted, ops, address, tasks,
                               canvas_futures>>
           ELSE IF args.multithreading
           THEN /\ tasks' = Append(tasks, [op |-> op, state |-> "pending"])
                /\ canvas_futures' = Append(canvas_futures, Len(tasks) + 1)
                /\ IF Len(canvas_futures') % MAX_WORKERS = 0
                   THEN pc' = "wait" /\ UNCHANGED <<pos, painted>>
                   ELSE /\ painted' = painted + 1
                        /\ pos' = NextPos
                        /\ UNCHANGED pc
                /\ UNCHANGED <<error, ops, address>>
           ELSE /\ ops' = Append(ops, op)
                /\ address' = AddressOf(op)
                /\ painted' = painted + 1
                /\ pos' = NextPos
                /\ UNCHANGED <<pc, error, tasks, canvas_futures>>
    /\ UNCHANGED <<args, origin, source, area, joins>>

\* The iteration of a run that keeps no record of what os.system returned.
PaintStep == PaintIteration /\ UNCHANGED status

\* A wait that returns without waiting for the futures.
WaitReturnEarly ==
    /\ pc = "wait"
    /\ joins' = Append(joins, Len(canvas_futures))
    /\ canvas_futures' = <<>>
    /\ painted' = painted + 1
    /\ pos' = NextPos
    /\ pc' = "paint"
    /\ UNCHANGED <<args, origin, error, source, area, ops, status, address,
                   tasks>>

\* Lines 632-638: concurrent.futures.wait returns once every future of the
\* list is done; the list is cleared and the iteration ends.
WaitReturn ==
    /\ pc = "wait"
    /\ AllDone(canvas_futures)
    /\ joins' = Append(joins, Len(canvas_futures))
    /\ canvas_futures' = <<>>
    /\ painted' = painted + 1
    /\ pos' = NextPos
    /\ pc' = "paint"
    /\ UNCHANGED <<args, origin, error, source, area, ops, status, address,
                   tasks>>

\* The end of the loops: on to the shutdown of the executor, or, without
\* multithreading, to the final message (line 648).
LoopExit ==
    /\ pc = "paint"
    /\ LoopDone
    /\ pc' = IF args.multithreading THEN "shutdown" ELSE "done"
    /\ UNCHANGED <<args, origin, error, source, area, pos, painted, ops,
                   status, address, tasks, canvas_futures, joins>>

\* A shutdown that does not wait for the work items (wait=False).
ShutdownNoWait ==
    /\ pc = "shutdown"
    /\ joins' = Append(joins, Len(canvas_futures))
    /\ pc' = "done"
    /\ UNCHANGED <<args, origin, error, source, area, pos, painted, ops,
                   status, address, tasks, canvas_futures>>

\* Lines 641-648: executor.shutdown(wait=True) returns once the workers
\* have run every work item; then the final message.
Shutdown ==
    /\ pc = "shutdown"
    /\ \A i \in 1..Len(tasks) : tasks[i].state = "done"
    /\ joins' = Append(joins, Len(canvas_futures))
    /\ pc' = "done"
    /\ UNCHANGED <<args, origin, error, source, area, pos, painted, ops,
                   status, address, tasks, canvas_futures>>

(***************************************************************************)
(* The ThreadPoolExecutor(MAX_WORKERS): a worker thread takes the oldest   *)
(* pending work item and calls canvas.paint_pixel; at most MAX_WORKERS     *)
(* threads exist.                                                          *)
(***************************************************************************)
Running == {i \in 1..Len(tasks) : tasks[i].state = "running"}
Pending == {i \in 1..Len(tasks) : tasks[i].state = "pending"}
InFlight == {i \in 1..Len(tasks) : tasks[i].state # "done"}

WorkerStart ==
    /\ Pending # {}
    /\ Cardinality(Running) < MAX_WORKERS
    /\ LET i == CHOOSE k \in Pending : \A j \in Pending : k <= j
       IN  /\ tasks' = [tasks EXCEPT ![i].state = "running"]
           /\ ops' = Append(ops, tasks[i].op)
           /\ address' = AddressOf(tasks[i].op)
    /\ UNCHANGED <<args, origin, pc, error, source, area, pos, painted,
                   status, canvas_futures, joins>>

WorkerFinish ==
    /\ \E i \in Running : tasks' = [tasks EXCEPT ![i].state = "done"]
    /\ UNCHANGED <<args, origin, pc, error, source, area, pos, painted, ops,
                   status, address, canvas_futures, joins>>

Next ==
    \/ VerifyArgs
    \/ CreateSource
    \/ CheckCenter
    \/ VerifyBoundaries
    \/ CreateCanvas
    \/ PaintStep
    \/ WaitReturn
    \/ LoopExit
    \/ Shutdown
    \/ WorkerStart
    \/ WorkerFinish

Spec == Init /\ [][Next]_vars

(***************************************************************************)
(* Properties of a program run.                                            *)
(***************************************************************************)
\* The boundaries were resolved without an error.
AfterBounds ==
    \/ pc \in {"canvas", "paint", "wait", "shutdown", "done"}
    \/ pc = "fatal" /\ error = "base_addr"

\* The origin asked for on each axis: the center moved by half the resolved
\* size, or the top-left coordinate given, or 0.
RequestedX == IF args.cx # UNDEFINED THEN args.cx - (area.width \div 2)
              ELSE IF args.x = UNDEFINED THEN 0 ELSE args.x
RequestedY == IF args.cy # UNDEFINED THEN args.cy - (area.height \div 2)
              ELSE IF args.y = UNDEFINED THEN 0 ELSE args.y

Min(a, b) == IF a < b THEN a ELSE b
Max(a, b) == IF a > b THEN a ELSE b

\* The Source-local coordinates of the iteration window.
Window == {<<lx, ly>> : lx \in area.start_x..(area.stop_width - 1),
                        ly \in area.start_y..(area.stop_height - 1)}

\* The window pixels that are not skipped as transparent.
Emitted == {c \in Window :
              ~(args.skip_transparent /\ get_pixel(source, c[1], c[2])[4] = 0)}

PaintedAt == {<<ops[i].x, ops[i].y>> : i \in 1..Len(ops)}

Is10x10Example ==
    /\ args.x = 0 /\ args.y = MAX - 6 /\ args.cx = UNDEFINED
    /\ args.cy = UNDEFINED /\ args.width = 10 /\ args.height = 10

\* C1: every paint operation handed to the Canvas (called at once, or
\* submitted to the executor) carries x and y in [0, 65535], whatever the
\* boundary policy.
C1_CoordinatesInCanvas ==
    /\ \A i \in 1..Len(ops) :
          /\ 0 <= ops[i].x /\ ops[i].x <= 65535
          /\ 0 <= ops[i].y /\ ops[i].y <= 65535
    /\ \A i \in 1..Len(tasks) :
          /\ 0 <= tasks[i].op.x /\ tasks[i].op.x <= 65535
          /\ 0 <= tasks[i].op.y /\ tasks[i].op.y <= 65535

\* A pushed run has painted the last column of the canvas and its first row.
C1_Witness ==
    /\ pc = "done" /\ area.exceeds_var /\ args.push
    /\ \E i \in 1..Len(ops) : ops[i].x = 65535 /\ ops[i].y = 0

\* C2: a run that went through the paint loop has made exactly one paint
\* call for each Source-local (lx, ly) of the window that was not skipped
\* as transparent, and none for a skipped one; the call carries
\* (origin + local offset) and the colour get_pixel(lx, ly) gives; the
\* window lies inside the source, and get_pixel never raised.
C2_OnePaintPerWindowPixel ==
    /\ pc # "crash"
    /\ pc \in {"paint", "wait", "shutdown", "done"} =>
          \A c \in Window : /\ 0 <= c[1] /\ c[1] < source.width
                            /\ 0 <= c[2] /\ c[2] < source.height
    /\ pc = "done" =>
          /\ Len(ops) = Cardinality(Emitted)
          /\ \A c \in Window :
                Cardinality({i \in 1..Len(ops) :
                    ops[i] = PaintOp(origin.x + c[1], origin.y + c[2],
                                     get_pixel(source, c[1], c[2]))})
                  = IF c \in Emitted THEN 1 ELSE 0

\* An image painted with --skip-transparent: some pixels painted, some not.
C2_Witness ==
    /\ pc = "done" /\ args.skip_transparent /\ ~source.fill
    /\ Len(ops) > 0 /\ Len(ops) < Cardinality(Window)

\* C3: under the overflow policy the origin stays as requested and only
\* the window is narrowed: start = -origin on a left/top excess, stop =
\* MAX - origin on a right/bottom excess; the window is never larger than
\* the source, what is painted is the requested rectangle cut to the
\* canvas, and the 10x10 example at (0, 65530) paints rows 65530..65535.
C3_OverflowNarrowsWindow ==
    AfterBounds /\ args.overflow /\ area.exceeds_var =>
       /\ origin = [x |-> RequestedX, y |-> RequestedY]
       /\ area.start_x = IF RequestedX < 0 THEN -RequestedX ELSE 0
       /\ area.start_y = IF RequestedY < 0 THEN -RequestedY ELSE 0
       /\ area.stop_width = IF RequestedX + area.width > 65536
                            THEN 65536 - RequestedX ELSE area.width
       /\ area.stop_height = IF RequestedY + area.height > 65536
                             THEN 65536 - RequestedY ELSE area.height
       /\ 0 <= area.start_x /\ area.start_x <= area.stop_width
       /\ area.stop_width <= area.width
       /\ 0 <= area.start_y /\ area.start_y <= area.stop_height
       /\ area.stop_height <= area.height
       /\ pc = "done" /\ ~args.skip_transparent =>
             PaintedAt =
                {<<X, Y>> :
                   X \in Max(RequestedX, 0)
                           ..(Min(RequestedX + area.width, 65536) - 1),
                   Y \in Max(RequestedY, 0)
                           ..(Min(RequestedY + area.height, 65536) - 1)}
       /\ pc = "done" /\ Is10x10Example =>
             /\ Len(ops) = 60
             /\ {ops[i].y : i \in 1..Len(ops)} = 65530..65535

\* The 10x10 example has been painted under --overflow.
C3_Witness ==
    /\ pc = "done" /\ args.overflow /\ Is10x10Example /\ Len(ops) = 60

\* C4: under the push policy the origin moves to 0 on a left/top excess
\* and to MAX - size on a right/bottom excess, the window stays the whole
\* source, the push never fails, every pixel of the source is painted, and
\* the 10x10 example at (0, 65530) is painted from y = 65526, all 10 rows.
C4_PushKeepsSize ==
    /\ error # "push_failed"
    /\ AfterBounds /\ args.push /\ area.exceeds_var =>
       /\ origin.x = IF RequestedX < 0 THEN 0
                     ELSE IF RequestedX + area.width > 65536
                     THEN 65536 - area.width ELSE RequestedX
       /\ origin.y = IF RequestedY < 0 THEN 0
                     ELSE IF RequestedY + area.height > 65536
                     THEN 65536 - area.height ELSE RequestedY
       /\ area.start_x = 0 /\ area.stop_width = source.width
       /\ area.start_y = 0 /\ area.stop_height = source.height
       /\ pc = "done" /\ ~args.skip_transparent =>
             /\ Len(ops) = source.width * source.height
             /\ Cardinality(PaintedAt) = source.width * source.height
       /\ pc = "done" /\ Is10x10Example =>
             /\ origin = [x |-> 0, y |-> 65526]
             /\ Len(ops) = 100
             /\ {ops[i].y : i \in 1..Len(ops)} = 65526..65535

\* The 10x10 example has been painted under --push.
C4_Witness ==
    /\ pc = "done" /\ args.push /\ Is10x10Example /\ Len(ops) = 100

\* The center has been translated (lines 539-542 have run).
AfterCenter ==
    \/ pc = "bounds" \/ AfterBounds
    \/ pc = "fatal" /\ error \in {"boundary", "push_failed"}

\* C5: a center coordinate given for an axis makes the origin of that axis
\* center - floor(size / 2), with the size the source has after set_size;
\* the four exceed conditions are evaluated on that origin; center
\* (100, 100) with size 11x11 gives the origin (95, 95).
C5_CenterOrigin ==
    /\ pc = "bounds" =>
          /\ args.cx # UNDEFINED =>
                /\ 2 * (args.cx - origin.x) \in {source.width - 1, source.width}
                /\ (source.width - 2 * (args.cx - origin.x)) = source.width % 2
          /\ args.cy # UNDEFINED =>
                /\ 2 * (args.cy - origin.y) \in {source.height - 1, source.height}
                /\ (source.height - 2 * (args.cy - origin.y)) = source.height % 2
          /\ args.cx = 100 /\ args.cy = 100 /\ source.width = 11
                /\ source.height = 11 => origin = [x |-> 95, y |-> 95]
    /\ AfterCenter /\ pc # "bounds" =>
          area.exceeds_var =
             \/ RequestedX < 0 \/ RequestedX + source.width > 65536
             \/ RequestedY < 0 \/ RequestedY + source.height > 65536

\* The 11x11 example centered at (100, 100) is about to be checked against
\* the boundaries, its origin at (95, 95).
C5_Witness ==
    /\ pc = "bounds" /\ args.cx = 100 /\ args.cy = 100
    /\ source.width = 11 /\ source.height = 11 /\ origin = [x |-> 95, y |-> 95]

\* An argument outside the range set_size accepts.
SizeOutOfRange(v) == v # UNDEFINED /\ (v < MIN_SIZE \/ v > MAX_SIZE)

\* The conditions that end a run with an error: both policies, a center and
\* a top-left coordinate for one axis, an invalid base address, a size out
\* of range, an area outside the canvas with no policy.
FatalCondition ==
    \/ args.overflow /\ args.push
    \/ args.x # UNDEFINED /\ args.cx # UNDEFINED
    \/ args.y # UNDEFINED /\ args.cy # UNDEFINED
    \/ ~MatchesIPv6(args.base_addr \o DUMMY_ADDR)
    \/ SizeOutOfRange(args.width) \/ SizeOutOfRange(args.height)
    \/ AfterCenter /\ pc # "bounds" /\ area.exceeds_var
          /\ ~args.overflow /\ ~args.push

\* C6: a run that ended with an error has made no paint call and submitted
\* none, and a run with any of the fatal conditions never enters the paint
\* loop.
C6_FatalBeforePaint ==
    /\ pc = "fatal" => ops = <<>> /\ tasks = <<>>
    /\ FatalCondition =>
          /\ pc \notin {"paint", "wait", "shutdown", "done"}
          /\ ops = <<>> /\ tasks = <<>>

\* The last check before the loop, the base address, has ended a run
\* whose area had been resolved.
C6_Witness ==
    pc = "fatal" /\ error = "base_addr" /\ area.stop_width > 0 /\ ops = <<>>

\* The checks of the arguments passed and set_size was called.
SetSizeCalled == pc \notin {"verify", "source"} /\ (pc = "fatal" => error \in
                    {"size", "boundary", "push_failed", "base_addr"})

\* C9 (as amended): MAX_SIZE is round(65536 / 8) = 8192.  A run whose
\* --width or --height is given (not -1, the UNDEFINED value) and lies
\* outside 1..8192 ends in set_size with a size error and paints nothing;
\* a filling whose width and height lie in 1..8192 passes set_size.
C9_SizeRange ==
    /\ MAX_SIZE = 8192
    /\ SetSizeCalled =>
          /\ (\E v \in {args.width, args.height} :
                 v # -1 /\ (v < 1 \/ v > 8192))
                => pc = "fatal" /\ error = "size" /\ ops = <<>> /\ tasks = <<>>
          /\ (args.fill /\ \A v \in {args.width, args.height} :
                               1 <= v /\ v <= 8192)
                => error # "size" /\ source.width = args.width
                                  /\ source.height = args.height

\* A filling 8192 pixels wide, cropped to the last column of the canvas,
\* has been painted.
C9_Witness ==
    /\ pc = "done" /\ args.width = 8192 /\ source.width = 8192
    /\ Len(ops) = 1 /\ ops[1].x = 65535

\* C9 as stated, with 8191 as the largest size: a given width or height
\* outside 1..8191 ends the run in set_size with a size error.
C9_AsStated ==
    SetSizeCalled =>
       ((\E v \in {args.width, args.height} :
            v # -1 /\ (v < 1 \/ v > 8191))
           => pc = "fatal" /\ error = "size" /\ ops = <<>>)

\* The indices in the list canvas_futures.
Listed == {canvas_futures[k] : k \in 1..Len(canvas_futures)}

\* C10: with the pool of MAX_WORKERS = 3, at most 3 submitted operations
\* are not yet completed at any instant: the loop submits only while every
\* unfinished work item is in its list of fewer than 3 futures, and blocks
\* on a list of exactly 3.  Every wait joins a batch of 3 and the shutdown
\* joins the rest; 7 operations give the joins 3, 3, 1.
C10_BoundedInFlight ==
    /\ Cardinality(InFlight) <= 3
    /\ InFlight \subseteq Listed
    /\ pc = "paint" => Len(canvas_futures) < 3
    /\ pc = "wait" => Len(canvas_futures) = 3
    /\ \A k \in 1..Len(joins) : k < Len(joins) \/ pc # "done" => joins[k] = 3
    /\ pc = "done" /\ args.multithreading =>
          /\ Len(joins) = (Len(tasks) \div 3) + 1
          /\ joins[Len(joins)] = Len(tasks) % 3
    /\ pc = "done" /\ Len(tasks) = 7 => joins = <<3, 3, 1>>

\* Seven operations went through the pool, joined as 3, 3, 1.
C10_Witness ==
    pc = "done" /\ args.multithreading /\ Len(tasks) = 7 /\ joins = <<3, 3, 1>>

(***************************************************************************)
(* Canvas.paint_pixel alone: one call on each combination of coordinates   *)
(* and colour bytes, with the default base address.                        *)
(***************************************************************************)
EncCoords == {0, 1, 15, 16, 255, 256, 4095, 4096, 65535}
EncBytes == {0, 9, 10, 16, 255}

InitEnc ==
    /\ args = ArgsOf(UNDEFINED, UNDEFINED, UNDEFINED, UNDEFINED, UNDEFINED,
                     UNDEFINED, [fill |-> FALSE, color |-> <<>>], FALSE,
                     FALSE, FALSE, FALSE, FALSE, BASE_ADDR)
    /\ origin = [x |-> ORIGIN, y |-> ORIGIN]
    /\ pc = "paint_pixel"
    /\ error = "none"
    /\ source = NoSource
    /\ area = NoArea
    /\ pos = [y |-> 0, x |-> 0]
    /\ painted = 0
    /\ ops = <<>>
    /\ status = <<>>
    /\ address = <<>>
    /\ tasks = <<>>
    /\ canvas_futures = <<>>
    /\ joins = <<>>

PaintPixel ==
    /\ pc = "paint_pixel"
    /\ \E x \in EncCoords, y \in EncCoords :
       \E r \in EncBytes, g \in EncBytes, b \in EncBytes, a \in EncBytes :
          /\ ops' = <<PaintOp(x, y, <<r, g, b, a>>)>>
          /\ address' = PaintPixelAddress(args.base_addr, x, y, r, g, b, a)
    /\ pc' = "pinged"
    /\ UNCHANGED <<args, origin, error, source, area, pos, painted, status,
                   tasks, canvas_futures, joins>>

NextEnc == PaintPixel

SpecEnc == InitEnc /\ [][NextEnc]_vars

\* C7: the address is the base address followed by 19 characters: four
\* lowercase hex digits of x, ":", four of y, ":", two of r, two of g, ":",
\* two of b, two of a; read back as hexadecimal, the six fields are the
\* integers passed.
C7_AddressRoundTrip ==
    pc = "pinged" =>
       LET n == Len(args.base_addr)
           f(i, j) == SubSeq(address, n + i, n + j)
           op == ops[1]
       IN  /\ Len(address) = n + 19
           /\ SubSeq(address, 1, n) = args.base_addr
           /\ \A i \in 1..19 :
                 IF i \in {5, 10, 15} THEN address[n + i] = ":"
                 ELSE \E k \in 1..16 : address[n + i] = LowerHex[k]
           /\ ParseHex(f(1, 4)) = op.x
           /\ ParseHex(f(6, 9)) = op.y
           /\ ParseHex(f(11, 12)) = op.r
           /\ ParseHex(f(13, 14)) = op.g
           /\ ParseHex(f(16, 17)) = op.b
           /\ ParseHex(f(18, 19)) = op.a

\* paint_pixel(65535, 0, 0, 255, 16, 9) built ...ffff:0000:00ff:1009.
C7_Witness ==
    /\ pc = "pinged"
    /\ ops[1] = [x |-> 65535, y |-> 0, r |-> 0, g |-> 255, b |-> 16, a |-> 9]
    /\ address = BASE_ADDR \o <<"f", "f", "f", "f", ":", "0", "0", "0", "0",
                               ":", "0", "0", "f", "f", ":", "1", "0", "0",
                               "9">>

(***************************************************************************)
(* set_size alone: an opened image of any size up to MaxCur x MaxCur, or a *)
(* new filling, and a call of set_size with each pair of arguments.        *)
(***************************************************************************)
ReqVals == {UNDEFINED, MAX_SIZE, MAX_SIZE + 1} \cup 0..MaxReq

InitSize ==
    /\ \E w \in ReqVals, h \in ReqVals :
          \/ /\ args = ArgsOf(UNDEFINED, UNDEFINED, UNDEFINED, UNDEFINED, w, h,
                              [fill |-> FALSE, color |-> <<>>], FALSE, FALSE,
                              FALSE, FALSE, FALSE, BASE_ADDR)
             /\ \E w0 \in 1..MaxCur, h0 \in 1..MaxCur :
                   source = [fill |-> FALSE, color |-> <<>>, width |-> w0,
                             height |-> h0]
          \/ /\ w # UNDEFINED /\ h # UNDEFINED
             /\ args = ArgsOf(UNDEFINED, UNDEFINED, UNDEFINED, UNDEFINED, w, h,
                              [fill |-> TRUE, color |-> White], FALSE, FALSE,
                              FALSE, FALSE, FALSE, BASE_ADDR)
             /\ source = Element(TRUE, White)
    /\ origin = [x |-> ORIGIN, y |-> ORIGIN]
    /\ pc = "set_size"
    /\ error = "none"
    /\ area = NoArea
    /\ pos = [y |-> 0, x |-> 0]
    /\ painted = 0
    /\ ops = <<>>
    /\ status = <<>>
    /\ address = <<>>
    /\ tasks = <<>>
    /\ canvas_futures = <<>>
    /\ joins = <<>>

\* source.set_size(args.width, args.height), of the Bitmap or of the
\* Filling being constructed.
SetSize ==
    /\ pc = "set_size"
    /\ \E s \in IF source.fill
                THEN ElementSetSize(source, args.width, args.height)
                ELSE BitmapSetSize(source, args.width, args.height) :
          /\ source' = [fill |-> s.fill, color |-> s.color,
                        width |-> s.width, height |-> s.height]
          /\ IF s.exit THEN Exit("size")
             ELSE pc' = "sized" /\ UNCHANGED error
    /\ UNCHANGED <<args, origin, area, pos, painted, ops, status, address,
                   tasks, canvas_futures, joins>>

NextSize == SetSize

SpecSize == InitSize /\ [][NextSize]_vars

\* v is an integer nearest to num / den.
Nearest(v, num, den) == 2 * (v * den - num) <= den /\ 2 * (num - v * den) <= den

InRange(v) == 1 <= v /\ v <= MAX_SIZE

\* C8: a set_size call with exactly one axis given, in range and different
\* from the current value of that axis, sets that axis to the value given
\* and the other axis to an integer nearest to given / (width / height), or
\* given / (height / width) for a height, taken with the width and height
\* of before the call.
C8_AspectRatio ==
    [][pc = "set_size" /\ pc' # "set_size" =>
         /\ (/\ InRange(args.width) /\ args.height = UNDEFINED
             /\ args.width # source.width)
               => /\ source'.width = args.width
                  /\ Nearest(source'.height, args.width * source.height,
                             source.width)
         /\ (/\ InRange(args.height) /\ args.width = UNDEFINED
             /\ args.height # source.height)
               => /\ source'.height = args.height
                  /\ Nearest(source'.width, args.height * source.width,
                             source.height)]_vars

\* A 5x3 image was given --width 4 and is now 4x2 (4 / (5/3) = 2.4).
C8_Witness ==
    /\ pc = "sized" /\ args.width = 4 /\ args.height = UNDEFINED
    /\ source.width = 4 /\ source.height = 2

(***************************************************************************)
(* The end of a concurrent run.                                            *)
(***************************************************************************)
\* The work items of the last, partial list of futures: those submitted
\* after the last concurrent.futures.wait.
LastBatch == {i \in 1..Len(tasks) : i > Len(tasks) - Len(canvas_futures)}

\* C11: in concurrent mode the final message is printed only after every
\* submitted paint operation has completed, those of a final list of fewer
\* than MAX_WORKERS futures included: no work item is pending or running,
\* and each one was carried out, when the run is done.
C11_DoneAfterAllComplete ==
    (pc = "done" /\ args.multithreading) =>
        /\ InFlight = {}
        /\ \A i \in LastBatch : tasks[i].state = "done"
        /\ Len(ops) = Len(tasks)
        /\ \A i \in 1..Len(tasks) : ops[i] = tasks[i].op

\* A concurrent run that is done and whose last list of futures held fewer
\* than MAX_WORKERS operations, after a full list.
C11_Witness ==
    /\ pc = "done"
    /\ args.multithreading
    /\ Len(tasks) > MAX_WORKERS
    /\ LastBatch # {}
    /\ Cardinality(LastBatch) < MAX_WORKERS

(***************************************************************************)
(* The order of a sequential run.                                          *)
(***************************************************************************)
WindowWidth == area.stop_width - area.start_x
WindowHeight == area.stop_height - area.start_y

\* The window in row-major order: row after row from the top, each row
\* from the left, by the index of the pixel in the window.
RowMajor ==
    [k \in 1..(IF WindowWidth > 0 /\ WindowHeight > 0
               THEN WindowWidth * WindowHeight ELSE 0) |->
        <<area.start_x + ((k - 1) % WindowWidth),
          area.start_y + ((k - 1) \div WindowWidth)>>]

\* The paint operations of the row-major sequence, the skipped pixels left
\* out.
ForwardOps ==
    LET IsEmitted(c) == c \in Emitted
        kept == SelectSeq(RowMajor, IsEmitted)
    IN  [k \in 1..Len(kept) |->
            PaintOp(origin.x + kept[k][1], origin.y + kept[k][2],
                    get_pixel(source, kept[k][1], kept[k][2]))]

Reversed(seq) == [k \in 1..Len(seq) |-> seq[Len(seq) + 1 - k]]

IterationOrder == IF args.reverse THEN Reversed(ForwardOps) ELSE ForwardOps

\* C12: without multithreading nothing is handed to an executor; each
\* paint operation is carried out within its iteration, before the next
\* pixel is taken, so the operations carried out so far are the first ones
\* of the iteration order and all of them are counted; the iteration order
\* is row-major over the window, and with --reverse it is exactly that
\* sequence reversed.  A finished run has carried out the whole sequence.
C12_SequentialOrder ==
    (~args.multithreading /\ pc \in {"paint", "done"}) =>
        /\ tasks = <<>>
        /\ painted = Len(ops)
        /\ Len(ops) <= Len(IterationOrder)
        /\ ops = SubSeq(IterationOrder, 1, Len(ops))
        /\ pc = "done" => ops = IterationOrder

\* A finished sequential run in reverse over a window of several rows and
\* columns: the first operation is the last pixel of the last row.
C12_Witness ==
    /\ pc = "done"
    /\ ~args.multithreading
    /\ args.reverse
    /\ WindowWidth > 1
    /\ WindowHeight > 1
    /\ Len(ops) = WindowWidth * WindowHeight
    /\ ops[1].x = origin.x + area.stop_width - 1
    /\ ops[1].y = origin.y + area.stop_height - 1
    /\ ops[Len(ops)].x = origin.x + area.start_x
    /\ ops[Len(ops)].y = origin.y + area.start_y

(***************************************************************************)
(* Runs that record what each ping returned.  Canvas.paint_pixel calls     *)
(* os.system(command) and drops its value (line 109): 0 when ping got its  *)
(* reply, non-zero when it did not or could not be sent.                   *)
(***************************************************************************)
RowLen == 2

ExitStatus == {0, 1}

\* Runs over RowLen x 2 pixels of each source, in each mode.
TransportArgs ==
    {ArgsOf(UNDEFINED, UNDEFINED, UNDEFINED, UNDEFINED, RowLen, 2, src, rev,
            skip, mt, FALSE, FALSE, BASE_ADDR) :
        src \in Sources, rev \in BOOLEAN, skip \in BOOLEAN, mt \in BOOLEAN}

InitT ==
    /\ args \in TransportArgs
    /\ origin = [x |-> args.x, y |-> args.y]
    /\ pc = "verify"
    /\ error = "none"
    /\ source = NoSource
    /\ area = NoArea
    /\ pos = [y |-> 0, x |-> 0]
    /\ painted = 0
    /\ ops = <<>>
    /\ status = <<>>
    /\ address = <<>>
    /\ tasks = <<>>
    /\ canvas_futures = <<>>
    /\ joins = <<>>

\* The iteration; in sequential mode its call of canvas.paint_pixel runs
\* os.system, whose value has no part in what the iteration does next.
PaintStepT ==
    /\ PaintIteration
    /\ IF ops' # ops
       THEN \E r \in ExitStatus : status' = status @@ (Len(ops') :> r)
       ELSE UNCHANGED status

\* A worker that puts the work item back in the queue when its ping
\* failed.
WorkerFinishRetry ==
    /\ \E i \in Running : \E r \in ExitStatus :
          /\ tasks' = [tasks EXCEPT ![i].state =
                                      IF r = 0 THEN "done" ELSE "pending"]
          /\ status' = IF r = 0 THEN status @@ (i :> r) ELSE status
    /\ UNCHANGED <<args, origin, pc, error, source, area, pos, painted, ops,
                   address, canvas_futures, joins>>

\* The call of a worker returns: os.system has returned r, paint_pixel
\* returns None and the future is done.
WorkerFinishT ==
    /\ \E i \in Running : \E r \in ExitStatus :
          /\ tasks' = [tasks EXCEPT ![i].state = "done"]
          /\ status' = status @@ (i :> r)
    /\ UNCHANGED <<args, origin, pc, error, source, area, pos, painted, ops,
                   address, canvas_futures, joins>>

NextT ==
    \/ VerifyArgs
    \/ CreateSource
    \/ CheckCenter
    \/ VerifyBoundaries
    \/ CreateCanvas
    \/ PaintStepT
    \/ WaitReturn
    \/ LoopExit
    \/ Shutdown
    \/ WorkerStart
    \/ WorkerFinishT

\* The steps of the paint loop, of the shutdown and of the workers.
Dispatch ==
    \/ PaintStepT
    \/ WaitReturn
    \/ LoopExit
    \/ Shutdown
    \/ WorkerStart
    \/ WorkerFinishT

\* The interpreter runs the main thread and the worker threads as long as
\* one of them can take a step, and each ping -c 1 returns.
SpecT == InitT /\ [][NextT]_vars /\ WF_vars(Dispatch)

Failed == {i \in DOMAIN status : status[i] # 0}

\* What holds at every moment of a run whose pings may fail.
C13_NoRetryNotFatal ==
    /\ pc \notin {"crash", "fatal"}
    /\ error = "none"
    /\ DOMAIN status \subseteq 1..Len(ops)
    /\ \A i \in 1..Len(ops) : \A j \in 1..Len(ops) :
          (ops[i].x = ops[j].x /\ ops[i].y = ops[j].y) => i = j
    /\ pc = "done" =>
          /\ DOMAIN status = 1..Len(ops)
          /\ Len(ops) = Cardinality(Emitted)
          /\ PaintedAt = {<<origin.x + c[1], origin.y + c[2]>> : c \in Emitted}

\* C13: a failing ping is neither retried nor fatal, in sequential and in
\* concurrent mode: whichever pings fail, no pixel is painted twice, the
\* run never exits with an error, and a run that entered the paint loop
\* reaches the final message with every pixel that is not skipped
\* attempted exactly once.
C13_FailureIgnored ==
    /\ []C13_NoRetryNotFatal
    /\ (pc = "paint") ~> (pc = "done" /\ error = "none")

\* A finished concurrent run over the whole window whose first and last
\* pings failed and whose second one did not.
C13_Witness ==
    /\ pc = "done"
    /\ args.multithreading
    /\ Len(ops) = RowLen * 2
    /\ 1 \in Failed
    /\ 2 \notin Failed
    /\ Len(ops) \in Failed

=============================================================================
